---- MODULE Spec2Model ----
(***************************************************************************)
(* clients/filesystem-fuse/src/s3_filesystem.rs: the S3 backend adapter of *)
(* the gvfs FUSE client.  S3FileSystem::new resolves bucket, region and    *)
(* the s3- prefixed configuration into the parameter map of an OpenDAL S3  *)
(* operator; the PathFileSystem implementation forwards every operation to *)
(* the owned OpenDalFileSystem.                                            *)
(*                                                                         *)
(* Strings are sequences of one-character strings, so that starts_with,    *)
(* strip_prefix, split('.') and URL parsing are computed, not assumed.     *)
(***************************************************************************)
EXTENDS Naturals, Sequences, FiniteSets, TLC

VARIABLES call, open_dal_fs, ref_fs, last, ret, ref_ret, issued

vars == <<call, open_dal_fs, ref_fs, last, ret, ref_ret, issued>>

newVars == <<call>>

fsVars == <<open_dal_fs, ref_fs, last, ret, ref_ret, issued>>

(***************************************************************************)
(* Bounds of the model.                                                    *)
(***************************************************************************)
\* the longest host, in dot-separated segments, of a generated location
MaxLabels == 3

\* the most entries of a generated extend_config
MaxEntries == 2

\* the number of paths the filesystem operations are called on
MaxPaths == 2

(***************************************************************************)
(* String literals of the source.                                          *)
(***************************************************************************)
S3_CONFIG_PREFIX == <<"s", "3", "-">>

KEY_BUCKET == <<"b", "u", "c", "k", "e", "t">>

KEY_REGION == <<"r", "e", "g", "i", "o", "n">>

PROP_S3_REGION == <<"s", "3", "-", "r", "e", "g", "i", "o", "n">>

PROP_S3_ENDPOINT == <<"s", "3", "-", "e", "n", "d", "p", "o", "i", "n", "t">>

(***************************************************************************)
(* GvfsResult<T>: Ok(v) or Err(ErrorCode.to_error(message)).  A message is *)
(* its fixed text and the value formatted into it.                         *)
(***************************************************************************)
NoVal == <<>>

NoErr == [kind |-> "none", msg |-> "", about |-> <<>>]

Ok(v) == [ok |-> TRUE, val |-> v, err |-> NoErr]

Err(kind, msg, about) ==
    [ok |-> FALSE, val |-> NoVal, err |-> [kind |-> kind, msg |-> msg, about |-> about]]

(***************************************************************************)
(* str helpers of the standard library, computed character by character.   *)
(***************************************************************************)
starts_with(s, p) ==
    /\ Len(s) >= Len(p)
    /\ \A i \in 1..Len(p) : s[i] = p[i]

strip_prefix(s, p) == SubSeq(s, Len(p) + 1, Len(s))

\* the index of the first c in s, 0 when there is none
IndexOf(s, c) ==
    IF \E i \in 1..Len(s) : s[i] = c
    THEN CHOOSE i \in 1..Len(s) : s[i] = c /\ \A j \in 1..(i - 1) : s[j] # c
    ELSE 0

RECURSIVE split(_, _)
split(s, c) ==
    LET i == IndexOf(s, c)
    IN  IF i = 0
        THEN <<s>>
        ELSE <<SubSeq(s, 1, i - 1)>> \o split(SubSeq(s, i + 1, Len(s)), c)

RECURSIVE SkipSlashes(_)
SkipSlashes(s) ==
    IF s # <<>> /\ Head(s) = "/" THEN SkipSlashes(Tail(s)) ELSE s

(***************************************************************************)
(* utils::parse_location and Url::host_str.  A URL is scheme ":" rest; a   *)
(* string with no scheme is a relative URL without a base and is refused.  *)
(* For the special scheme http the slashes after the colon are skipped and *)
(* an empty host is refused; for any other scheme the host is what follows *)
(* "//" up to the next "/", and a URL without "//" has no host.            *)
(***************************************************************************)
NoHost == [some |-> FALSE, str |-> <<>>]

SomeHost(h) == [some |-> TRUE, str |-> h]

HTTP == <<"h", "t", "t", "p">>

UpToSlash(s) ==
    LET i == IndexOf(s, "/") IN IF i = 0 THEN s ELSE SubSeq(s, 1, i - 1)

parse_location(location) ==
    LET colon == IndexOf(location, ":")
        scheme == SubSeq(location, 1, colon - 1)
        rest == SubSeq(location, colon + 1, Len(location))
    IN  IF colon <= 1
        THEN Err("InvalidConfig", "Invalid fileset location", location)
        ELSE IF scheme = HTTP
        THEN LET authority == UpToSlash(SkipSlashes(rest))
             IN  IF authority = <<>>
                 THEN Err("InvalidConfig", "Invalid fileset location", location)
                 ELSE Ok([scheme |-> scheme, host |-> SomeHost(authority)])
        ELSE IF starts_with(rest, <<"/", "/">>)
        THEN LET authority == UpToSlash(SubSeq(rest, 3, Len(rest)))
             IN  Ok([scheme |-> scheme,
                     host |-> IF authority = <<>> THEN NoHost ELSE SomeHost(authority)])
        ELSE Ok([scheme |-> scheme, host |-> NoHost])

host_str(url) == url.host

(***************************************************************************)
(* extract_bucket, extract_region, extract_s3_config, get_s3_region.       *)
(***************************************************************************)
\* a variant of extract_bucket that keeps only the first segment of the host
extract_bucket_first_label(location) ==
    LET url == parse_location(location)
    IN  IF ~url.ok THEN url
        ELSE IF host_str(url.val).some
        THEN Ok(split(host_str(url.val).str, ".")[1])
        ELSE Err("InvalidConfig", "Invalid fileset location without bucket", location)

extract_bucket(location) ==
    LET url == parse_location(location)
    IN  IF ~url.ok THEN url
        ELSE IF host_str(url.val).some
        THEN Ok(host_str(url.val).str)
        ELSE Err("InvalidConfig", "Invalid fileset location without bucket", location)

\* a variant of extract_region that asks for three segments (len() > 2)
extract_region_third_segment(location) ==
    LET url == parse_location(location)
    IN  IF ~url.ok THEN url
        ELSE IF host_str(url.val).some
        THEN LET parts == split(host_str(url.val).str, ".")
             IN  IF Len(parts) > 2
                 THEN Ok(parts[2])
                 ELSE Err("InvalidConfig",
                          "Invalid location: expected region in host, got", location)
        ELSE Err("InvalidConfig", "Invalid fileset location without bucket", location)

extract_region(location) ==
    LET url == parse_location(location)
    IN  IF ~url.ok THEN url
        ELSE IF host_str(url.val).some
        THEN LET parts == split(host_str(url.val).str, ".")
             IN  IF Len(parts) > 1
                 THEN Ok(parts[2])
                 ELSE Err("InvalidConfig",
                          "Invalid location: expected region in host, got", location)
        ELSE Err("InvalidConfig", "Invalid fileset location without bucket", location)

\* collect() of (key, value) pairs into a HashMap
collect(pairs) ==
    [k \in {p[1] : p \in pairs} |-> (CHOOSE p \in pairs : p[1] = k)[2]]

\* a variant of extract_s3_config that tests contains() for starts_with()
extract_s3_config_contains(config) ==
    collect({<<strip_prefix(k, S3_CONFIG_PREFIX), config.extend_config[k]>> :
                k \in {x \in DOMAIN config.extend_config :
                          \E i \in 0..Len(x) :
                              starts_with(SubSeq(x, i + 1, Len(x)), S3_CONFIG_PREFIX)}})

extract_s3_config(config) ==
    collect({<<strip_prefix(k, S3_CONFIG_PREFIX), config.extend_config[k]>> :
                k \in {x \in DOMAIN config.extend_config :
                          starts_with(x, S3_CONFIG_PREFIX)}})

\* a variant of get_s3_region that looks at s3-endpoint before s3-region
get_s3_region_endpoint_first(catalog) ==
    IF PROP_S3_ENDPOINT \in DOMAIN catalog.properties
    THEN extract_region(catalog.properties[PROP_S3_ENDPOINT])
    ELSE IF PROP_S3_REGION \in DOMAIN catalog.properties
    THEN Ok(catalog.properties[PROP_S3_REGION])
    ELSE Err("InvalidConfig", "Cant not retrieve region in the Catalog", catalog.name)

get_s3_region(catalog) ==
    IF PROP_S3_REGION \in DOMAIN catalog.properties
    THEN Ok(catalog.properties[PROP_S3_REGION])
    ELSE IF PROP_S3_ENDPOINT \in DOMAIN catalog.properties
    THEN extract_region(catalog.properties[PROP_S3_ENDPOINT])
    ELSE Err("InvalidConfig", "Cant not retrieve region in the Catalog", catalog.name)

(***************************************************************************)
(* S3FileSystem::new.  Operator::new and OpenDalFileSystem::new belong to  *)
(* OpenDAL and to open_dal_filesystem.rs: op_err is what Operator::new     *)
(* reports for the builder ("none": it succeeds).  The value returned      *)
(* records, beside the GvfsResult, the calls made in order, the map handed *)
(* to S3::from_map and whether the failure was logged.                     *)
(***************************************************************************)
NotCalled == [called |-> FALSE, map |-> <<>>]

CalledWith(m) == [called |-> TRUE, map |-> m]

NewSteps ==
    <<"extract_s3_config", "extract_bucket", "get_s3_region",
      "S3::from_map", "Operator::new", "OpenDalFileSystem::new">>

\* a variant of the operator failure that reports InvalidConfig
operator_error_invalid_config(e) ==
    Err("InvalidConfig", "opendal create failed", e)

\* OpenDalError.to_error(format!("opendal create failed: {:?}", e))
operator_error(e) == Err("OpenDalError", "opendal create failed", e)

\* op.unwrap().layer(LoggingLayer::default()).finish()
finish(builder) == [params |-> builder, layer |-> "LoggingLayer"]

OpenDalFileSystem_new(op, config, fs_context) ==
    [op |-> op, config |-> config, fs_context |-> fs_context]

\* a variant of insert that keeps an existing value (entry().or_insert())
insert_if_absent(m, k, v) ==
    [x \in DOMAIN m \cup {k} |-> IF x \in DOMAIN m THEN m[x] ELSE v]

\* HashMap::insert: the new value replaces an existing one
insert(m, k, v) == [x \in DOMAIN m \cup {k} |-> IF x = k THEN v ELSE m[x]]

\* a variant of new that resolves the region before the bucket
new_region_first(catalog, fileset, config, fs_context, op_err) ==
    LET opendal_config == extract_s3_config(config)
        region == get_s3_region(catalog)
        bucket == extract_bucket(fileset.storage_location)
    IN  IF ~region.ok
        THEN [result |-> region, steps |-> <<NewSteps[1], NewSteps[3]>>,
              from_map |-> NotCalled, logged |-> FALSE]
        ELSE IF ~bucket.ok
        THEN [result |-> bucket, steps |-> <<NewSteps[1], NewSteps[3], NewSteps[2]>>,
              from_map |-> NotCalled, logged |-> FALSE]
        ELSE
        LET builder == insert(insert(opendal_config, KEY_BUCKET, bucket.val),
                              KEY_REGION, region.val)
        IN  IF op_err # "none"
            THEN [result |-> operator_error(op_err), steps |-> SubSeq(NewSteps, 1, 5),
                  from_map |-> CalledWith(builder), logged |-> TRUE]
            ELSE [result |-> Ok([open_dal_fs |->
                                   OpenDalFileSystem_new(finish(builder), config,
                                                         fs_context)]),
                  steps |-> NewSteps,
                  from_map |-> CalledWith(builder), logged |-> FALSE]

new(catalog, fileset, config, fs_context, op_err) ==
    LET opendal_config == extract_s3_config(config)
        bucket == extract_bucket(fileset.storage_location)
    IN  IF ~bucket.ok
        THEN [result |-> bucket, steps |-> SubSeq(NewSteps, 1, 2),
              from_map |-> NotCalled, logged |-> FALSE]
        ELSE
        LET with_bucket == insert(opendal_config, KEY_BUCKET, bucket.val)
            region == get_s3_region(catalog)
        IN  IF ~region.ok
            THEN [result |-> region, steps |-> SubSeq(NewSteps, 1, 3),
                  from_map |-> NotCalled, logged |-> FALSE]
            ELSE
            LET builder == insert(with_bucket, KEY_REGION, region.val)
            IN  IF op_err # "none"
                THEN [result |-> operator_error(op_err), steps |-> SubSeq(NewSteps, 1, 5),
                      from_map |-> CalledWith(builder), logged |-> TRUE]
                ELSE [result |-> Ok([open_dal_fs |->
                                       OpenDalFileSystem_new(finish(builder), config,
                                                             fs_context)]),
                      steps |-> NewSteps,
                      from_map |-> CalledWith(builder), logged |-> FALSE]

(***************************************************************************)
(* The inputs the functions are called on.                                 *)
(***************************************************************************)
S3 == <<"s", "3">>

Schemes == {S3, HTTP}

\* host segments: empty, the service name, a region
Labels == {<<>>, <<"s", "3">>, <<"u", "s">>}

\* the segments of the hosts S3FileSystem::new is called on
NewLabels == {<<>>, <<"b">>}

Suffixes == {<<>>, <<"/", "d">>}

LabelSeqs(labels, n) == UNION {[1..k -> labels] : k \in 0..n}

RECURSIVE Join(_)
Join(ls) ==
    IF ls = <<>> THEN <<>>
    ELSE IF Len(ls) = 1 THEN ls[1]
    ELSE ls[1] \o <<".">> \o Join(Tail(ls))

\* scheme://host/path
MkLocation(scheme, ls, suffix) == scheme \o <<":", "/", "/">> \o Join(ls) \o suffix

\* strings that are no scheme://host/path: empty, no scheme, no "//"
Malformed == {<<>>, <<"b">>, <<"s", "3", ":", "b">>}

Locations ==
    {MkLocation(s, ls, p) :
        s \in Schemes, ls \in LabelSeqs(Labels, MaxLabels), p \in Suffixes}
        \cup Malformed

StorageLocations ==
    {MkLocation(S3, ls, <<"/", "d">>) : ls \in LabelSeqs(NewLabels, MaxLabels)}
        \cup {<<"b">>}

Endpoints ==
    {MkLocation(HTTP, ls, <<>>) : ls \in LabelSeqs(NewLabels, MaxLabels)}
        \cup {<<"b">>, <<"s", "3", ":", "b">>}

Regions == {<<>>, <<"e", "u">>}

Maps(keys, vals, n) ==
    UNION {[K -> vals] : K \in {S \in SUBSET keys : Cardinality(S) <= n}}

Catalogs(endpoints) ==
    {[name |-> "cat1", properties |-> regionPart @@ endpointPart] :
        regionPart \in Maps({PROP_S3_REGION}, Regions, 1),
        endpointPart \in Maps({PROP_S3_ENDPOINT}, endpoints, 1)}

\* s3-endpoint, s3-bucket, s3-region, other-key, s3-s3-k, xs3-k
ConfigKeys ==
    {PROP_S3_ENDPOINT, S3_CONFIG_PREFIX \o KEY_BUCKET, PROP_S3_REGION,
     <<"o", "t", "h", "e", "r", "-", "k", "e", "y">>,
     <<"s", "3", "-", "s", "3", "-", "k">>,
     <<"x", "s", "3", "-", "k">>}

AppConfigs(vals) ==
    {[extend_config |-> m] : m \in Maps(ConfigKeys, vals, MaxEntries)}

OperatorErrors == {"none", "ConfigInvalid"}

FsContext == "default"

(***************************************************************************)
(* Construction and the free functions, each called on any input.  None of *)
(* them keeps state between calls: call holds the call in progress, its    *)
(* arguments and what it returns, until the caller takes the result.       *)
(***************************************************************************)
NoCall == [fn |-> "none", arg |-> <<>>, res |-> <<>>]

Return ==
    /\ call # NoCall
    /\ call' = NoCall
    /\ UNCHANGED fsVars

CallExtractBucket ==
    /\ call = NoCall
    /\ \E location \in Locations :
          call' = [fn |-> "extract_bucket", arg |-> location,
                   res |-> extract_bucket(location)]
    /\ UNCHANGED fsVars

CallExtractRegion ==
    /\ call = NoCall
    /\ \E location \in Locations :
          call' = [fn |-> "extract_region", arg |-> location,
                   res |-> extract_region(location)]
    /\ UNCHANGED fsVars

CallExtractS3Config ==
    /\ call = NoCall
    /\ \E config \in AppConfigs({<<"v">>, <<"w">>}) :
          call' = [fn |-> "extract_s3_config", arg |-> config,
                   res |-> extract_s3_config(config)]
    /\ UNCHANGED fsVars

CallGetS3Region ==
    /\ call = NoCall
    /\ \E catalog \in Catalogs(Locations) :
          call' = [fn |-> "get_s3_region", arg |-> catalog,
                   res |-> get_s3_region(catalog)]
    /\ UNCHANGED fsVars

CallNew ==
    /\ call = NoCall
    /\ \E catalog \in Catalogs(Endpoints),
          location \in StorageLocations,
          config \in AppConfigs({<<"v">>}),
          op_err \in OperatorErrors :
          call' = [fn |-> "new",
                   arg |-> [catalog |-> catalog,
                            fileset |-> [storage_location |-> location],
                            config |-> config, op_err |-> op_err],
                   res |-> new(catalog, [storage_location |-> location], config,
                               FsContext, op_err)]
    /\ UNCHANGED fsVars

(***************************************************************************)
(* OpenDalFileSystem, the delegate (open_dal_filesystem.rs): a namespace   *)
(* of files and directories on a remote store that may be unreachable.     *)
(* A call is the operation and its arguments; Delegate yields what the     *)
(* call returns and the delegate's state after it.                         *)
(***************************************************************************)
Paths == 1..MaxPaths

Kinds == {"none", "file", "dir"}

OpenFileFlagsSet == {0, 1}

FileStats == {0, 1}

Unit == "()"

\* the error of a failed call
FsErr(kind, c) == Err(kind, c.op, c)

Delegate(d, c) ==
    LET kind == d.entries[c.path]
        same(r) == [ret |-> r, state |-> d]
        becomes(r, k) == [ret |-> r, state |-> [d EXCEPT !.entries[c.path] = k]]
    IN  CASE c.op = "get_capacity" -> same(Ok([size |-> 0, used |-> 0]))
          [] c.op # "get_capacity" /\ d.down -> same(FsErr("OpenDalError", c))
          [] c.op = "init" /\ ~d.down ->
                [ret |-> Ok(Unit), state |-> [d EXCEPT !.inited = TRUE]]
          [] c.op = "stat" /\ ~d.down ->
                IF kind # "none" THEN same(Ok([path |-> c.path, kind |-> kind]))
                ELSE same(FsErr("NotFound", c))
          [] c.op = "read_dir" /\ ~d.down ->
                IF kind = "dir"
                THEN same(Ok({[path |-> q, kind |-> d.entries[q]] :
                                q \in {x \in Paths : x # c.path
                                                         /\ d.entries[x] # "none"}}))
                ELSE same(FsErr("NotFound", c))
          [] c.op = "open_file" /\ ~d.down ->
                IF kind = "file" THEN same(Ok([path |-> c.path, flags |-> c.flags]))
                ELSE same(FsErr("NotFound", c))
          [] c.op = "open_dir" /\ ~d.down ->
                IF kind = "dir" THEN same(Ok([path |-> c.path, flags |-> c.flags]))
                ELSE same(FsErr("NotFound", c))
          [] c.op = "create_file" /\ ~d.down ->
                IF kind = "none"
                THEN becomes(Ok([path |-> c.path, flags |-> c.flags]), "file")
                ELSE same(FsErr("Exists", c))
          [] c.op = "create_dir" /\ ~d.down ->
                IF kind = "none"
                THEN becomes(Ok([path |-> c.path, kind |-> "dir"]), "dir")
                ELSE same(FsErr("Exists", c))
          [] c.op = "set_attr" /\ ~d.down ->
                IF kind # "none" THEN same(Ok(Unit)) ELSE same(FsErr("NotFound", c))
          [] c.op = "remove_file" /\ ~d.down ->
                IF kind = "file" THEN becomes(Ok(Unit), "none")
                ELSE same(FsErr("NotFound", c))
          [] c.op = "remove_dir" /\ ~d.down ->
                IF kind = "dir" THEN becomes(Ok(Unit), "none")
                ELSE same(FsErr("NotFound", c))

(***************************************************************************)
(* impl PathFileSystem for S3FileSystem.  Each method yields what it       *)
(* returns, the delegate after it and the calls it issued on the delegate. *)
(***************************************************************************)
\* self.open_dal_fs.<c>.await, returned as it is
Forward(d, c) ==
    LET r == Delegate(d, c)
    IN  [ret |-> r.ret, open_dal_fs |-> r.state, issued |-> <<c>>]

\* a variant of init that forwards to the delegate like the other methods
init_forwarded(d) == Forward(d, [op |-> "init"])

init(d) == [ret |-> Ok(Unit), open_dal_fs |-> d, issued |-> <<>>]

stat(d, path) == Forward(d, [op |-> "stat", path |-> path])

read_dir(d, path) == Forward(d, [op |-> "read_dir", path |-> path])

open_file(d, path, flags) ==
    Forward(d, [op |-> "open_file", path |-> path, flags |-> flags])

open_dir(d, path, flags) ==
    Forward(d, [op |-> "open_dir", path |-> path, flags |-> flags])

create_file(d, path, flags) ==
    Forward(d, [op |-> "create_file", path |-> path, flags |-> flags])

create_dir(d, path) == Forward(d, [op |-> "create_dir", path |-> path])

set_attr(d, path, file_stat, flush) ==
    Forward(d, [op |-> "set_attr", path |-> path,
                file_stat |-> file_stat, flush |-> flush])

remove_file(d, path) == Forward(d, [op |-> "remove_file", path |-> path])

\* a variant of remove_dir that calls the delegate's remove_file
remove_dir_as_remove_file(d, path) ==
    Forward(d, [op |-> "remove_file", path |-> path])

remove_dir(d, path) == Forward(d, [op |-> "remove_dir", path |-> path])

get_capacity(d) == Forward(d, [op |-> "get_capacity"])

(***************************************************************************)
(* The operations of a constructed S3FileSystem.  ref_fs is a bare         *)
(* OpenDalFileSystem on the same store that is given, for every call on    *)
(* the adapter, the same operation with the same arguments; last is that   *)
(* call, ret and ref_ret what the adapter and the bare delegate returned.  *)
(***************************************************************************)
NoRet == <<>>

FreshDelegate == [entries |-> [q \in Paths |-> "none"], down |-> FALSE, inited |-> FALSE]

\* a call c on the adapter whose outcome is a
Step(a, c) ==
    /\ open_dal_fs' = a.open_dal_fs
    /\ ret' = a.ret
    /\ issued' = a.issued
    /\ last' = c
    /\ ref_ret' = Delegate(ref_fs, c).ret
    /\ ref_fs' = Delegate(ref_fs, c).state
    /\ UNCHANGED newVars

DoInit ==
    /\ open_dal_fs' = init(open_dal_fs).open_dal_fs
    /\ ret' = init(open_dal_fs).ret
    /\ issued' = init(open_dal_fs).issued
    /\ last' = [op |-> "init"]
    /\ ref_ret' = NoRet
    /\ UNCHANGED <<ref_fs, newVars>>

DoStat ==
    \E path \in Paths :
        Step(stat(open_dal_fs, path), [op |-> "stat", path |-> path])

DoReadDir ==
    \E path \in Paths :
        Step(read_dir(open_dal_fs, path), [op |-> "read_dir", path |-> path])

DoOpenFile ==
    \E path \in Paths, flags \in OpenFileFlagsSet :
        Step(open_file(open_dal_fs, path, flags),
             [op |-> "open_file", path |-> path, flags |-> flags])

DoOpenDir ==
    \E path \in Paths, flags \in OpenFileFlagsSet :
        Step(open_dir(open_dal_fs, path, flags),
             [op |-> "open_dir", path |-> path, flags |-> flags])

DoCreateFile ==
    \E path \in Paths, flags \in OpenFileFlagsSet :
        Step(create_file(open_dal_fs, path, flags),
             [op |-> "create_file", path |-> path, flags |-> flags])

DoCreateDir ==
    \E path \in Paths :
        Step(create_dir(open_dal_fs, path), [op |-> "create_dir", path |-> path])

DoSetAttr ==
    \E path \in Paths, file_stat \in FileStats, flush \in BOOLEAN :
        Step(set_attr(open_dal_fs, path, file_stat, flush),
             [op |-> "set_attr", path |-> path, file_stat |-> file_stat, flush |-> flush])

DoRemoveFile ==
    \E path \in Paths :
        Step(remove_file(open_dal_fs, path),
             [op |-> "remove_file", path |-> path])

DoRemoveDir ==
    \E path \in Paths :
        Step(remove_dir(open_dal_fs, path), [op |-> "remove_dir", path |-> path])

DoGetCapacity ==
    Step(get_capacity(open_dal_fs), [op |-> "get_capacity"])

\* the remote store becomes unreachable, or reachable again
RemoteChanges ==
    /\ open_dal_fs' = [open_dal_fs EXCEPT !.down = ~open_dal_fs.down]
    /\ ref_fs' = [ref_fs EXCEPT !.down = ~ref_fs.down]
    /\ last' = [op |-> "remote"]
    /\ ret' = NoRet
    /\ ref_ret' = NoRet
    /\ issued' = <<>>
    /\ UNCHANGED newVars

\* the state after S3FileSystem::new has succeeded
Init ==
    /\ call = NoCall
    /\ open_dal_fs = FreshDelegate
    /\ ref_fs = FreshDelegate
    /\ last = [op |-> "new"]
    /\ ret = NoRet
    /\ ref_ret = NoRet
    /\ issued = <<>>

NextNew ==
    \/ CallExtractBucket
    \/ CallExtractRegion
    \/ CallExtractS3Config
    \/ CallGetS3Region
    \/ CallNew
    \/ Return

SpecNew == Init /\ [][NextNew]_vars

Next ==
    \/ DoInit
    \/ DoStat
    \/ DoReadDir
    \/ DoOpenFile
    \/ DoOpenDir
    \/ DoCreateFile
    \/ DoCreateDir
    \/ DoSetAttr
    \/ DoRemoveFile
    \/ DoRemoveDir
    \/ DoGetCapacity
    \/ RemoteChanges

Spec == Init /\ [][Next]_vars

(***************************************************************************)
(* Properties of the forwarding operations (Spec).                         *)
(***************************************************************************)
ForwardedOps ==
    {"stat", "read_dir", "open_file", "open_dir", "create_file", "create_dir",
     "set_attr", "remove_file", "remove_dir", "get_capacity"}

\* C1: every call of one of the ten operations issues exactly one call on
\* the delegate, of the same operation with the same arguments, and returns
\* what a bare delegate returns for it, success or error, leaving the
\* delegate in the state the bare delegate is in.
C1_PassThrough ==
    last.op \in ForwardedOps =>
        /\ issued = <<last>>
        /\ ret = ref_ret
        /\ open_dal_fs = ref_fs

\* a remove_dir on an existing file has returned the delegate's error
C1_Witness ==
    /\ last.op = "remove_dir"
    /\ ~open_dal_fs.down
    /\ open_dal_fs.entries[last.path] = "file"
    /\ ~ret.ok
    /\ ret.err.kind = "NotFound"

\* C9: init returns Ok(()) whatever the state of the delegate, calls
\* nothing on the delegate and changes no state.
C9_InitIsNoOp ==
    [][last'.op = "init" =>
          /\ ret' = Ok(Unit)
          /\ issued' = <<>>
          /\ open_dal_fs' = open_dal_fs]_vars

\* init has returned Ok(()) while the delegate's own init would fail
C9_Witness ==
    /\ last.op = "init"
    /\ open_dal_fs.down
    /\ ~Delegate(open_dal_fs, [op |-> "init"]).ret.ok
    /\ ret = Ok(Unit)
    /\ \E q \in Paths : open_dal_fs.entries[q] # "none"

(***************************************************************************)
(* Properties of construction and of the free functions (SpecNew).         *)
(***************************************************************************)
Dots(s) == Cardinality({i \in 1..Len(s) : s[i] = "."})

NewCalled == call.fn = "new"

\* what each resolution step of the call in progress yields on its own
BucketOf == extract_bucket(call.arg.fileset.storage_location)

RegionOf == get_s3_region(call.arg.catalog)

\* C2: new is all-or-nothing and short-circuits in step order: a failure
\* yields an error and no S3FileSystem, the calls made are a prefix of the
\* step order that ends at the failing step, the delegate is constructed
\* only on success, and a failing bucket extraction is what is reported
\* even when region resolution would fail too.
C2_NewShortCircuits ==
    NewCalled =>
        LET r == call.res
            n == Len(r.steps)
        IN  /\ r.steps = SubSeq(NewSteps, 1, n)
            /\ r.result.ok <=> n = Len(NewSteps)
            /\ ~r.result.ok => r.result.val = NoVal
            /\ ~BucketOf.ok => n = 2 /\ r.result = BucketOf /\ ~r.from_map.called
            /\ BucketOf.ok /\ ~RegionOf.ok =>
                  n = 3 /\ r.result = RegionOf /\ ~r.from_map.called
            /\ BucketOf.ok /\ RegionOf.ok /\ call.arg.op_err # "none" =>
                  n = 5 /\ ~r.result.ok
            /\ BucketOf.ok /\ RegionOf.ok /\ call.arg.op_err = "none" => r.result.ok

\* both bucket extraction and region resolution would fail, with different
\* errors, and new has reported one
C2_Witness ==
    /\ NewCalled
    /\ ~BucketOf.ok
    /\ ~RegionOf.ok
    /\ BucketOf # RegionOf
    /\ call.res.result = BucketOf

\* C3: new never hands S3::from_map / Operator::new a parameter map whose
\* bucket or region is empty.
C3_NonEmptyBucketAndRegion ==
    NewCalled /\ call.res.from_map.called =>
        /\ call.res.from_map.map[KEY_BUCKET] # <<>>
        /\ call.res.from_map.map[KEY_REGION] # <<>>

\* C4: get_s3_region is first-match-wins: the s3-region property as it is,
\* else extract_region of the s3-endpoint property, else InvalidConfig.
C4_RegionFirstMatchWins ==
    call.fn = "get_s3_region" =>
        LET props == call.arg.properties
        IN  IF PROP_S3_REGION \in DOMAIN props
            THEN call.res = Ok(props[PROP_S3_REGION])
            ELSE IF PROP_S3_ENDPOINT \in DOMAIN props
            THEN call.res = extract_region(props[PROP_S3_ENDPOINT])
            ELSE ~call.res.ok /\ call.res.err.kind = "InvalidConfig"

\* both properties are present, the endpoint is one extract_region refuses,
\* and the region property was returned
C4_Witness ==
    /\ call.fn = "get_s3_region"
    /\ PROP_S3_REGION \in DOMAIN call.arg.properties
    /\ PROP_S3_ENDPOINT \in DOMAIN call.arg.properties
    /\ ~extract_region(call.arg.properties[PROP_S3_ENDPOINT]).ok
    /\ call.res.ok
    /\ call.res.val # <<>>

\* C5: when bucket and region resolve and Operator::new fails, new fails
\* with OpenDalError carrying the cause; every bucket or region failure of
\* new is InvalidConfig.
C5_ErrorKinds ==
    NewCalled =>
        /\ BucketOf.ok /\ RegionOf.ok /\ call.arg.op_err # "none" =>
              /\ ~call.res.result.ok
              /\ call.res.result.err.kind = "OpenDalError"
              /\ call.res.result.err.about = call.arg.op_err
        /\ ~BucketOf.ok \/ ~RegionOf.ok =>
              /\ ~call.res.result.ok
              /\ call.res.result.err.kind = "InvalidConfig"

\* bucket and region resolved and Operator::new failed
C5_Witness ==
    /\ NewCalled
    /\ BucketOf.ok
    /\ RegionOf.ok
    /\ call.arg.op_err # "none"
    /\ ~call.res.result.ok

\* C6: extract_bucket of scheme://bucket/... is bucket as written; a
\* location that parses without a host fails with InvalidConfig; one that
\* does not parse fails with the error of parse_location.
C6_ExtractBucket ==
    call.fn = "extract_bucket" =>
        LET location == call.arg
            url == parse_location(location)
        IN  /\ \A scheme \in Schemes, ls \in LabelSeqs(Labels, MaxLabels),
                   p \in Suffixes :
                  Join(ls) # <<>> /\ location = MkLocation(scheme, ls, p) =>
                      call.res = Ok(Join(ls))
            /\ url.ok /\ ~url.val.host.some =>
                  ~call.res.ok /\ call.res.err.kind = "InvalidConfig"
                      /\ call.res.err.msg = "Invalid fileset location without bucket"
            /\ ~url.ok => call.res = url

\* extract_bucket has returned a host of several segments, followed by a path
C6_Witness ==
    /\ call.fn = "extract_bucket"
    /\ call.res.ok
    /\ Dots(call.res.val) = 2
    /\ Len(call.arg) > Len(S3) + 3 + Len(call.res.val)

\* C7: extract_region succeeds exactly when the location has a host with at
\* least two dot-separated segments, and returns the second one as it is;
\* a host of one segment and a location without host fail with
\* InvalidConfig.
C7_ExtractRegion ==
    call.fn = "extract_region" =>
        LET location == call.arg
            url == parse_location(location)
        IN  /\ \A scheme \in Schemes, ls \in LabelSeqs(Labels, MaxLabels),
                   p \in Suffixes :
                  Join(ls) # <<>> /\ location = MkLocation(scheme, ls, p) =>
                      IF Len(ls) >= 2
                      THEN call.res = Ok(ls[2])
                      ELSE ~call.res.ok /\ call.res.err.kind = "InvalidConfig"
            /\ call.res.ok <=> url.ok /\ url.val.host.some /\ Dots(url.val.host.str) >= 1
            /\ url.ok /\ ~url.val.host.some =>
                  ~call.res.ok /\ call.res.err.kind = "InvalidConfig"

\* extract_region has returned the non-empty middle segment of a host of
\* three segments whose first segment differs from it
C7_Witness ==
    /\ call.fn = "extract_region"
    /\ call.res.ok
    /\ call.res.val # <<>>
    /\ \E ls \in LabelSeqs(Labels, MaxLabels) :
          /\ Len(ls) = 3
          /\ ls[1] # ls[2]
          /\ ls[3] # ls[2]
          /\ call.arg = MkLocation(HTTP, ls, <<>>)
          /\ call.res.val = ls[2]

\* C8: extract_s3_config keeps exactly the entries whose key starts with
\* s3-, under the key with that prefix taken off once and with the value
\* unchanged; it drops every other key and never fails.
C8_ExtractS3Config ==
    call.fn = "extract_s3_config" =>
        LET src == call.arg.extend_config
            out == call.res
        IN  /\ \A k \in DOMAIN out :
                  /\ S3_CONFIG_PREFIX \o k \in DOMAIN src
                  /\ out[k] = src[S3_CONFIG_PREFIX \o k]
            /\ \A k \in DOMAIN src :
                  (\E k2 \in DOMAIN out : k = S3_CONFIG_PREFIX \o k2)
                      <=> (Len(k) >= 3 /\ SubSeq(k, 1, 3) = S3_CONFIG_PREFIX)
            /\ (\A k \in DOMAIN src : Len(k) < 3 \/ SubSeq(k, 1, 3) # S3_CONFIG_PREFIX)
                  => out = << >>

\* the configuration holds a key with the prefix twice and a key with the
\* prefix not at its front, with different values; one entry is kept
C8_Witness ==
    /\ call.fn = "extract_s3_config"
    /\ DOMAIN call.arg.extend_config =
          {<<"s", "3", "-", "s", "3", "-", "k">>, <<"x", "s", "3", "-", "k">>}
    /\ call.arg.extend_config[<<"x", "s", "3", "-", "k">>] = <<"v">>
    /\ DOMAIN call.res = {<<"s", "3", "-", "k">>}
    /\ call.res[<<"s", "3", "-", "k">>] = <<"w">>

\* C10: the map handed to S3::from_map is extract_s3_config(config) with
\* bucket and region set to the derived values: these replace any
\* s3-bucket / s3-region entry of extend_config, every other entry is kept
\* and no other key is added.
C10_BuilderMap ==
    NewCalled /\ call.res.from_map.called =>
        LET base == extract_s3_config(call.arg.config)
            m == call.res.from_map.map
        IN  /\ DOMAIN m = DOMAIN base \cup {KEY_BUCKET, KEY_REGION}
            /\ m[KEY_BUCKET] = BucketOf.val
            /\ m[KEY_REGION] = RegionOf.val
            /\ \A k \in DOMAIN base \ {KEY_BUCKET, KEY_REGION} : m[k] = base[k]

\* extend_config holds s3-bucket and s3-region, and new has built the map
C10_Witness ==
    /\ NewCalled
    /\ call.res.from_map.called
    /\ {S3_CONFIG_PREFIX \o KEY_BUCKET, PROP_S3_REGION}
          \subseteq DOMAIN call.arg.config.extend_config
    /\ call.res.from_map.map[KEY_BUCKET] # <<"v">>
    /\ call.res.from_map.map[KEY_REGION] # <<"v">>

====
